---------------------------- MODULE Spec2Model ----------------------------
(***************************************************************************)
(* Model of the state store of src/components/CERWidget.tsx: the session   *)
(* state (items, weights, context), its initialization from localStorage   *)
(* and from the share-link fragment, the edit handlers, resetAll, the      *)
(* persistence effects, and the transport encoding encodeState /           *)
(* decodeState.  Spec is the sessions of one browser over what its         *)
(* localStorage and location hash can hold; SpecCodec is the share flow:   *)
(* a saved assessment is loaded, its link copied and opened elsewhere.     *)
(*                                                                         *)
(* Representation.                                                         *)
(*   - A text (a JavaScript string) is a sequence of code points.          *)
(*   - A JavaScript value is a tagged record, see JNull .. JObj.  A number *)
(*     n is held as the integer 100*n (hundredths): the numbers of the     *)
(*     program are integers (metric values) and k/100 (weights).           *)
(*   - An object is its sequence of <<key, value>> members in insertion    *)
(*     order, which is the order JSON.stringify writes them in.            *)
(***************************************************************************)
EXTENDS Integers, Sequences, FiniteSets, TLC

(***************************************************************************)
(* JavaScript values                                                       *)
(***************************************************************************)
JUndef == [t |-> "undef"]
JNull == [t |-> "null"]
JBool(b) == [t |-> "bool", b |-> b]
JNum(h) == [t |-> "num", h |-> h]
JInt(n) == JNum(100 * n)
JStr(s) == [t |-> "str", s |-> s]
JArr(a) == [t |-> "arr", a |-> a]
JObj(m) == [t |-> "obj", m |-> m]

\* x == null || x === undefined
IsNullish(x) == x.t \in {"undef", "null"}

\* a ?? b
Coalesce(a, b) == IF IsNullish(a) THEN b ELSE a

\* ToBoolean(x), the test of `if (x)` and of `x?.k` followed by a truth test
Truthy(x) ==
  CASE x.t \in {"undef", "null"} -> FALSE
    [] x.t = "bool" -> x.b
    [] x.t = "num" -> x.h # 0
    [] x.t = "str" -> x.s # <<>>
    [] OTHER -> TRUE

\* o[k] for a value that is neither null nor undefined: the last member
\* named k of an object, undefined when there is none or o is a primitive
\* (strings and arrays have no own property among the keys used here).
GetProp(o, k) ==
  IF o.t # "obj" THEN JUndef
  ELSE LET hits == {i \in 1..Len(o.m) : o.m[i][1] = k}
       IN IF hits = {} THEN JUndef
          ELSE o.m[CHOOSE i \in hits : \A j \in hits : j <= i][2]

\* { ...o, [k]: v }: the own enumerable members of o (none for a number,
\* boolean, null or undefined), with k replaced in place or appended.
ObjMembers(o) ==
  CASE o.t = "obj" -> o.m
    [] o.t = "arr" -> [i \in 1..Len(o.a) |-> <<<<47 + i>>, o.a[i]>>]
    [] o.t = "str" -> [i \in 1..Len(o.s) |-> <<<<47 + i>>, JStr(<<o.s[i]>>)>>]
    [] OTHER -> <<>>

SpreadSet(o, k, v) ==
  LET m == ObjMembers(o)
  IN IF \E i \in 1..Len(m) : m[i][1] = k
       THEN JObj([i \in 1..Len(m) |-> IF m[i][1] = k THEN <<k, v>> ELSE m[i]])
       ELSE JObj(Append(m, <<k, v>>))

(***************************************************************************)
(* Property names and catalog ids, as texts                                *)
(***************************************************************************)
K_v == <<118>>   \* "v"
K_items == <<105, 116, 101, 109, 115>>   \* "items"
K_id == <<105, 100>>   \* "id"
K_value == <<118, 97, 108, 117, 101>>   \* "value"
K_weights == <<119, 101, 105, 103, 104, 116, 115>>   \* "weights"
K_capacityWeight == <<99, 97, 112, 97, 99, 105, 116, 121, 87, 101, 105, 103, 104, 116>>   \* "capacityWeight"
K_adaptabilityWeight == <<97, 100, 97, 112, 116, 97, 98, 105, 108, 105, 116, 121, 87, 101, 105, 103, 104, 116>>   \* "adaptabilityWeight"
K_context == <<99, 111, 110, 116, 101, 120, 116>>   \* "context"
K_teamName == <<116, 101, 97, 109, 78, 97, 109, 101>>   \* "teamName"
K_department == <<100, 101, 112, 97, 114, 116, 109, 101, 110, 116>>   \* "department"
K_assessmentDate == <<97, 115, 115, 101, 115, 115, 109, 101, 110, 116, 68, 97, 116, 101>>   \* "assessmentDate"
K_assessorName == <<97, 115, 115, 101, 115, 115, 111, 114, 78, 97, 109, 101>>   \* "assessorName"
K_assessmentPurpose == <<97, 115, 115, 101, 115, 115, 109, 101, 110, 116, 80, 117, 114, 112, 111, 115, 101>>   \* "assessmentPurpose"
Id_autonomy == <<97, 117, 116, 111, 110, 111, 109, 121>>   \* "autonomy"
Id_psych_safety == <<112, 115, 121, 99, 104, 95, 115, 97, 102, 101, 116, 121>>   \* "psych_safety"
Id_experimentation == <<101, 120, 112, 101, 114, 105, 109, 101, 110, 116, 97, 116, 105, 111, 110>>   \* "experimentation"
Id_idea_flow == <<105, 100, 101, 97, 95, 102, 108, 111, 119>>   \* "idea_flow"
Id_leadership_support == <<108, 101, 97, 100, 101, 114, 115, 104, 105, 112, 95, 115, 117, 112, 112, 111, 114, 116>>   \* "leadership_support"
Id_reframing_speed == <<114, 101, 102, 114, 97, 109, 105, 110, 103, 95, 115, 112, 101, 101, 100>>   \* "reframing_speed"
Id_pivot_ability == <<112, 105, 118, 111, 116, 95, 97, 98, 105, 108, 105, 116, 121>>   \* "pivot_ability"
Id_novel_options == <<110, 111, 118, 101, 108, 95, 111, 112, 116, 105, 111, 110, 115>>   \* "novel_options"
Id_xfn_swarm == <<120, 102, 110, 95, 115, 119, 97, 114, 109>>   \* "xfn_swarm"
Id_learning_loop == <<108, 101, 97, 114, 110, 105, 110, 103, 95, 108, 111, 111, 112>>   \* "learning_loop"

(***************************************************************************)
(* Sequence helpers                                                        *)
(***************************************************************************)
\* The concatenation of a sequence of sequences, by halving.
RECURSIVE Flatten(_)
Flatten(ss) ==
  IF Len(ss) = 0 THEN <<>>
  ELSE IF Len(ss) = 1 THEN ss[1]
  ELSE LET h == Len(ss) \div 2
       IN Flatten(SubSeq(ss, 1, h)) \o Flatten(SubSeq(ss, h + 1, Len(ss)))

\* parts[1] sep parts[2] sep ... parts[n]
Join(parts, sep) ==
  Flatten([i \in 1..Len(parts) |-> IF i = 1 THEN parts[i] ELSE sep \o parts[i]])

\* The subsequence of s that satisfies Keep (a set of positions).
KeepAt(s, positions) ==
  Flatten([i \in 1..Len(s) |-> IF i \in positions THEN <<s[i]>> ELSE <<>>])

(***************************************************************************)
(* JSON.stringify                                                          *)
(***************************************************************************)
IsDigit(c) == c >= 48 /\ c <= 57

RECURSIVE Digits(_)
Digits(n) == IF n < 10 THEN <<48 + n>> ELSE Digits(n \div 10) \o <<48 + (n % 10)>>

\* Number::toString of h/100: shortest decimal text.
NumText(h) ==
  LET a == IF h < 0 THEN -h ELSE h
      frac == a % 100
      fracText == IF frac = 0 THEN <<>>
                  ELSE IF frac % 10 = 0 THEN <<46, 48 + (frac \div 10)>>
                  ELSE <<46, 48 + (frac \div 10), 48 + (frac % 10)>>
  IN (IF h < 0 THEN <<45>> ELSE <<>>) \o Digits(a \div 100) \o fracText

\* QuoteJSONString: the text between double quotes, with the double quote
\* and the backslash escaped (texts of the model hold no control characters).
QuoteText(s) ==
  <<34>> \o Flatten([i \in 1..Len(s) |->
                       IF s[i] \in {34, 92} THEN <<92, s[i]>> ELSE <<s[i]>>])
         \o <<34>>

\* The members JSON.stringify writes: those whose value is not undefined.
Written(ms) == KeepAt(ms, {i \in 1..Len(ms) : ms[i][2].t # "undef"})

\* JSON.stringify(x) for a defined x: members whose value is undefined are
\* left out of an object, an undefined array element is written as null.
RECURSIVE Stringify(_)
RECURSIVE MembersText(_)
MembersText(ms) ==
  Join([i \in 1..Len(ms) |-> QuoteText(ms[i][1]) \o <<58>> \o Stringify(ms[i][2])],
       <<44>>)

Stringify(x) ==
  CASE x.t = "null" -> <<110, 117, 108, 108>>
    [] x.t = "undef" -> <<110, 117, 108, 108>>
    [] x.t = "bool" -> IF x.b THEN <<116, 114, 117, 101>>
                       ELSE <<102, 97, 108, 115, 101>>
    [] x.t = "num" -> NumText(x.h)
    [] x.t = "str" -> QuoteText(x.s)
    [] x.t = "arr" ->
         <<91>> \o Join([i \in 1..Len(x.a) |-> Stringify(x.a[i])], <<44>>) \o <<93>>
    [] x.t = "obj" -> <<123>> \o MembersText(Written(x.m)) \o <<125>>

(***************************************************************************)
(* JSON.parse                                                              *)
(***************************************************************************)
\* A parse step yields [ok, v, i]: the value read and the position after it.
PFail == [ok |-> FALSE, v |-> JUndef, i |-> 0]
POk(v, i) == [ok |-> TRUE, v |-> v, i |-> i]

IsWs(c) == c = 32 \/ c = 9 \/ c = 10 \/ c = 13

\* The first position at or after i that holds no white space (Len+1 at the end).
RECURSIVE SkipWs(_, _)
SkipWs(t, i) == IF i <= Len(t) /\ IsWs(t[i]) THEN SkipWs(t, i + 1) ELSE i

HasAt(t, i, word) ==
  /\ i + Len(word) - 1 <= Len(t)
  /\ \A k \in 1..Len(word) : t[i + k - 1] = word[k]

\* The value of the digits t[i..j].
RECURSIVE DigitsValue(_, _, _)
DigitsValue(t, i, j) ==
  IF j < i THEN 0 ELSE 10 * DigitsValue(t, i, j - 1) + (t[j] - 48)

\* The last position of the run of digits that starts at i (i - 1 when none).
RECURSIVE DigitsEnd(_, _)
DigitsEnd(t, i) == IF i <= Len(t) /\ IsDigit(t[i]) THEN DigitsEnd(t, i + 1) ELSE i - 1

\* number: -? (0 | [1-9][0-9]*) (. [0-9]+)?   An exponent, or more than two
\* fraction digits, is outside the numbers of the model and is refused.
\* i: the first digit, e: the last digit of the integer part, f: the last
\* position of the number.
NumberEnd(t, neg, i, e, f) ==
  IF \/ e < i
     \/ (t[i] = 48 /\ e > i)
     \/ (f > e /\ f - (e + 1) \notin {1, 2})
     \/ (f + 1 <= Len(t) /\ t[f + 1] \in {69, 101})
    THEN PFail
    ELSE POk(JNum((IF neg THEN -1 ELSE 1)
                    * (100 * DigitsValue(t, i, e)
                         + (IF f = e THEN 0
                            ELSE IF f - (e + 1) = 1 THEN 10 * DigitsValue(t, e + 2, f)
                            ELSE DigitsValue(t, e + 2, f)))),
             f + 1)

NumberFraction(t, neg, i, e) ==
  NumberEnd(t, neg, i, e,
            IF e + 1 <= Len(t) /\ t[e + 1] = 46 THEN DigitsEnd(t, e + 2) ELSE e)

NumberInteger(t, neg, i) == NumberFraction(t, neg, i, DigitsEnd(t, i))

ParseNumber(t, i0) == NumberInteger(t, t[i0] = 45, IF t[i0] = 45 THEN i0 + 1 ELSE i0)

\* The character an escape \c stands for (0: not an escape of the model).
Unescaped(c) ==
  CASE c \in {34, 92, 47} -> c
    [] c = 98 -> 8
    [] c = 102 -> 12
    [] c = 110 -> 10
    [] c = 114 -> 13
    [] c = 116 -> 9
    [] OTHER -> 0

\* The text of a string literal whose opening quote is at i - 1.
RECURSIVE ParseChars(_, _, _)
ParseChars(t, i, acc) ==
  IF i > Len(t) THEN PFail
  ELSE IF t[i] = 34 THEN POk(JStr(acc), i + 1)
  ELSE IF t[i] < 32 THEN PFail
  ELSE IF t[i] # 92 THEN ParseChars(t, i + 1, Append(acc, t[i]))
  ELSE IF i + 1 > Len(t) \/ Unescaped(t[i + 1]) = 0 THEN PFail
  ELSE ParseChars(t, i + 2, Append(acc, Unescaped(t[i + 1])))

RECURSIVE ParseValue(_, _)
RECURSIVE ParseElements(_, _, _)
RECURSIVE ParseMembers(_, _, _)

\* r: the element just read; then , value ... ]
ElementsAfter(t, r, acc) ==
  IF ~r.ok THEN PFail ELSE ParseElements(t, SkipWs(t, r.i), Append(acc, r.v))

\* i: the position after an element and white space
ParseElements(t, i, acc) ==
  IF i > Len(t) THEN PFail
  ELSE IF t[i] = 93 THEN POk(JArr(acc), i + 1)
  ELSE IF t[i] # 44 THEN PFail
  ELSE ElementsAfter(t, ParseValue(t, i + 1), acc)

\* n: the position after a member and white space
MembersAfter(t, n, acc) ==
  IF n > Len(t) THEN PFail
  ELSE IF t[n] = 125 THEN POk(JObj(acc), n + 1)
  ELSE IF t[n] = 44 THEN ParseMembers(t, SkipWs(t, n + 1), acc)
  ELSE PFail

\* k: the key just read, r: the value just read
MemberValue(t, k, r, acc) ==
  IF ~r.ok THEN PFail ELSE MembersAfter(t, SkipWs(t, r.i), Append(acc, <<k, r.v>>))

\* c: the position after a key and white space
MemberColon(t, k, c, acc) ==
  IF c > Len(t) \/ t[c] # 58 THEN PFail
  ELSE MemberValue(t, k, ParseValue(t, c + 1), acc)

MemberKey(t, k, acc) ==
  IF ~k.ok THEN PFail ELSE MemberColon(t, k.v.s, SkipWs(t, k.i), acc)

\* i: the position of a member "key" : value
ParseMembers(t, i, acc) ==
  IF i > Len(t) \/ t[i] # 34 THEN PFail
  ELSE MemberKey(t, ParseChars(t, i + 1, <<>>), acc)

\* i: the position of the first character of a value; j: the position after
\* an opening bracket and white space
ValueAt(t, i, j) ==
  IF i > Len(t) THEN PFail
  ELSE CASE t[i] = 123 ->
              IF j <= Len(t) /\ t[j] = 125 THEN POk(JObj(<<>>), j + 1)
              ELSE ParseMembers(t, j, <<>>)
         [] t[i] = 91 ->
              IF j <= Len(t) /\ t[j] = 93 THEN POk(JArr(<<>>), j + 1)
              ELSE ElementsAfter(t, ParseValue(t, j), <<>>)
         [] t[i] = 34 -> ParseChars(t, i + 1, <<>>)
         [] t[i] = 45 \/ IsDigit(t[i]) -> ParseNumber(t, i)
         [] HasAt(t, i, <<110, 117, 108, 108>>) -> POk(JNull, i + 4)
         [] HasAt(t, i, <<116, 114, 117, 101>>) -> POk(JBool(TRUE), i + 4)
         [] HasAt(t, i, <<102, 97, 108, 115, 101>>) -> POk(JBool(FALSE), i + 5)
         [] OTHER -> PFail

ValueFrom(t, i) == ValueAt(t, i, SkipWs(t, i + 1))

ParseValue(t, i0) == ValueFrom(t, SkipWs(t, i0))

\* A repeated key keeps its first position and its last value.
FirstMembers(ms) ==
  KeepAt(ms, {i \in 1..Len(ms) : \A j \in 1..(i - 1) : ms[j][1] # ms[i][1]})

RECURSIVE Normalize(_)
NormalizeMembers(x, ms) ==
  JObj([i \in 1..Len(ms) |-> <<ms[i][1], Normalize(GetProp(x, ms[i][1]))>>])

Normalize(x) ==
  CASE x.t = "arr" -> JArr([i \in 1..Len(x.a) |-> Normalize(x.a[i])])
    [] x.t = "obj" -> NormalizeMembers(x, FirstMembers(x.m))
    [] OTHER -> x

\* r: the value read from position 1; only white space may follow it
Parsed(t, r) ==
  IF r.ok /\ SkipWs(t, r.i) > Len(t)
    THEN [ok |-> TRUE, v |-> Normalize(r.v)]
    ELSE [ok |-> FALSE, v |-> JUndef]

\* JSON.parse(t): [ok |-> FALSE] stands for the SyntaxError it throws.
JSONParse(t) == Parsed(t, ParseValue(t, 1))

(***************************************************************************)
(* UTF-8 and base64: unescape(encodeURIComponent(.)), btoa, atob,          *)
(* decodeURIComponent(escape(.))                                           *)
(***************************************************************************)
\* A step that can throw yields [ok, v]; ok = FALSE stands for the exception.
Threw == [ok |-> FALSE, v |-> <<>>]
Gave(v) == [ok |-> TRUE, v |-> v]

\* The UTF-8 bytes of one code point.
Utf8Of(c) ==
  IF c < 128 THEN <<c>>
  ELSE IF c < 2048 THEN <<192 + (c \div 64), 128 + (c % 64)>>
  ELSE IF c < 65536
    THEN <<224 + (c \div 4096), 128 + ((c \div 64) % 64), 128 + (c % 64)>>
  ELSE <<240 + (c \div 262144), 128 + ((c \div 4096) % 64),
         128 + ((c \div 64) % 64), 128 + (c % 64)>>

\* An encoder without the UTF-8 step, btoa(JSON.stringify(state)): the
\* characters of t are handed to btoa as they are.
Utf8EncodeSkipped(t) == Gave(t)

\* unescape(encodeURIComponent(t)): the UTF-8 bytes of t, one character per
\* byte; encodeURIComponent throws URIError on a lone surrogate.
Utf8Encode(t) ==
  IF \E i \in 1..Len(t) : t[i] \in 55296..57343 THEN Threw
  ELSE Gave(Flatten([i \in 1..Len(t) |-> Utf8Of(t[i])]))

\* The character of a base64 digit 0..63.
B64Char(d) ==
  IF d < 26 THEN 65 + d
  ELSE IF d < 52 THEN 97 + (d - 26)
  ELSE IF d < 62 THEN 48 + (d - 52)
  ELSE IF d = 62 THEN 43 ELSE 47

IsB64Char(c) ==
  \/ (c >= 65 /\ c <= 90)
  \/ (c >= 97 /\ c <= 122)
  \/ (c >= 48 /\ c <= 57)
  \/ c = 43
  \/ c = 47

\* The base64 digit of a character of the alphabet.
B64Digit(c) ==
  IF c >= 65 /\ c <= 90 THEN c - 65
  ELSE IF c >= 97 /\ c <= 122 THEN c - 97 + 26
  ELSE IF c >= 48 /\ c <= 57 THEN c - 48 + 52
  ELSE IF c = 43 THEN 62 ELSE 63

\* btoa(b): throws InvalidCharacterError when a character is above 255.
Btoa(b) ==
  IF \E i \in 1..Len(b) : b[i] > 255 THEN Threw
  ELSE
    LET n == Len(b)
        groups == (n + 2) \div 3
        byte(i) == IF i <= n THEN b[i] ELSE 0
        quad(g) ==
          LET b1 == byte(3 * g - 2)
              b2 == byte(3 * g - 1)
              b3 == byte(3 * g)
          IN <<B64Char(b1 \div 4),
               B64Char((b1 % 4) * 16 + (b2 \div 16)),
               IF 3 * g - 1 > n THEN 61 ELSE B64Char((b2 % 16) * 4 + (b3 \div 64)),
               IF 3 * g > n THEN 61 ELSE B64Char(b3 % 64)>>
    IN Gave([k \in 1..(4 * groups) |-> quad((k + 3) \div 4)[((k - 1) % 4) + 1]])

\* The bytes of n base64 characters of t (n is not 1 modulo 4); the bits left
\* over after the last whole byte are dropped.
B64Bytes(t, n) ==
  [j \in 1..((n * 6) \div 8) |->
     CASE (j - 1) % 3 = 0 ->
            B64Digit(t[4 * ((j - 1) \div 3) + 1]) * 4
              + (B64Digit(t[4 * ((j - 1) \div 3) + 2]) \div 16)
       [] (j - 1) % 3 = 1 ->
            (B64Digit(t[4 * ((j - 1) \div 3) + 2]) % 16) * 16
              + (B64Digit(t[4 * ((j - 1) \div 3) + 3]) \div 4)
       [] OTHER ->
            (B64Digit(t[4 * ((j - 1) \div 3) + 3]) % 4) * 64
              + B64Digit(t[4 * ((j - 1) \div 3) + 4])]

\* n: the length of t without its padding
AtobData(t, n) ==
  IF n % 4 = 1 \/ \E i \in 1..n : ~IsB64Char(t[i]) THEN Threw
  ELSE Gave(B64Bytes(t, n))

\* One or two trailing = are removed when the length is a multiple of 4.
AtobPadded(t) ==
  AtobData(t, IF Len(t) % 4 # 0 \/ Len(t) = 0 \/ t[Len(t)] # 61 THEN Len(t)
              ELSE IF t[Len(t) - 1] = 61 THEN Len(t) - 2 ELSE Len(t) - 1)

\* atob(s), the forgiving base64 decode: ASCII white space is removed; it
\* throws when the length without padding is 1 modulo 4 or a character is
\* outside the alphabet.
Atob(s) == AtobPadded(KeepAt(s, {i \in 1..Len(s) : s[i] \notin {9, 10, 12, 13, 32}}))

\* decodeURIComponent(escape(b)): the text whose UTF-8 bytes are b; throws
\* URIError when b is not well-formed UTF-8 (a stray continuation byte, a
\* truncated or overlong sequence, a surrogate, a value above 10FFFF).
Utf8Decode(b) ==
  LET n == Len(b)
      cont(i) == i <= n /\ b[i] \in 128..191
      len(i) == IF b[i] < 128 THEN 1
                ELSE IF b[i] \in 194..223 THEN 2
                ELSE IF b[i] \in 224..239 THEN 3
                ELSE IF b[i] \in 240..244 THEN 4 ELSE 0
      cp(i) ==
        IF len(i) = 1 THEN b[i]
        ELSE IF len(i) = 2 THEN (b[i] - 192) * 64 + (b[i + 1] - 128)
        ELSE IF len(i) = 3
          THEN (b[i] - 224) * 4096 + (b[i + 1] - 128) * 64 + (b[i + 2] - 128)
        ELSE (b[i] - 240) * 262144 + (b[i + 1] - 128) * 4096
               + (b[i + 2] - 128) * 64 + (b[i + 3] - 128)
      starts == {i \in 1..n : ~cont(i)}
      wellFormed(i) ==
        /\ len(i) > 0
        /\ \A k \in 1..(len(i) - 1) : cont(i + k)
        /\ ~cont(i + len(i))
        /\ len(i) = 3 => cp(i) >= 2048 /\ cp(i) \notin 55296..57343
        /\ len(i) = 4 => cp(i) \in 65536..1114111
  IN IF (n > 0 /\ cont(1)) \/ \E i \in starts : ~wellFormed(i) THEN Threw
     ELSE Gave(Flatten([i \in 1..n |-> IF i \in starts THEN <<cp(i)>> ELSE <<>>]))

(***************************************************************************)
(* The catalog and the defaults                                            *)
(***************************************************************************)
MetricItem(id, label, group, value) ==
  [id |-> id, label |-> label, group |-> group, value |-> JInt(value)]

\* The help texts of the catalog are display text only and are left out.
defaultItems ==
  << MetricItem(Id_autonomy, "Autonomy", "capacity", 60),
     MetricItem(Id_psych_safety, "Psychological Safety", "capacity", 55),
     MetricItem(Id_experimentation, "Experimentation Resources", "capacity", 50),
     MetricItem(Id_idea_flow, "Idea Flow", "capacity", 52),
     MetricItem(Id_leadership_support, "Leadership Support", "capacity", 58),
     MetricItem(Id_reframing_speed, "Reframing Speed", "adaptability", 48),
     MetricItem(Id_pivot_ability, "Pivot Ability", "adaptability", 45),
     MetricItem(Id_novel_options, "Novel Options", "adaptability", 47),
     MetricItem(Id_xfn_swarm, "Cross-Functional Swarm", "adaptability", 51),
     MetricItem(Id_learning_loop, "Learning Loop Speed", "adaptability", 49) >>

defaultWeights ==
  JObj(<< <<K_capacityWeight, JNum(50)>>, <<K_adaptabilityWeight, JNum(50)>> >>)

\* date: new Date().toISOString().split('T')[0] when the module is loaded
defaultContext(date) ==
  JObj(<< <<K_teamName, JStr(<<>>)>>,
          <<K_department, JStr(<<>>)>>,
          <<K_assessmentDate, JStr(date)>>,
          <<K_assessorName, JStr(<<>>)>>,
          <<K_assessmentPurpose, JStr(<<>>)>> >>)

(***************************************************************************)
(* encodeState / decodeState                                               *)
(***************************************************************************)
\* items.map(({ id, value }) => ({ id, value }))
IdValueList(its) ==
  JArr([i \in 1..Len(its) |->
          JObj(<< <<K_id, JStr(its[i].id)>>, <<K_value, its[i].value>> >>)])

\* btoa(unescape(encodeURIComponent(JSON.stringify(state)))), as [ok, v]
encodeState(its, w, c) ==
  LET state == JObj(<< <<K_v, JInt(1)>>,
                       <<K_items, IdValueList(its)>>,
                       <<K_weights, w>>,
                       <<K_context, c>> >>)
      bytes == Utf8Encode(Stringify(state))
  IN IF bytes.ok THEN Btoa(bytes.v) ELSE Threw

\* JSON.parse(decodeURIComponent(escape(atob(s)))), null when a step throws
DecodedText(bytes) == IF bytes.ok THEN Utf8Decode(bytes.v) ELSE Threw
DecodedValue(text) == IF text.ok THEN JSONParse(text.v) ELSE [ok |-> FALSE, v |-> JUndef]
ValueOrNull(obj) == IF obj.ok THEN obj.v ELSE JNull

decodeState(s) == ValueOrNull(DecodedValue(DecodedText(Atob(s))))

(***************************************************************************)
(* The session                                                             *)
(***************************************************************************)
VARIABLES
  storage,      \* localStorage: key -> [has, text]
  storageMode,  \* "ok"; "readonly": setItem throws; "denied": every access throws
  hash,         \* window.location.hash: empty, or # and the fragment
  today,        \* the date the module was loaded on (defaultContext.assessmentDate)
  phase,        \* "unloaded", "ready" (mounted), "crashed" (a render or effect threw)
  items, weights, context,   \* the component state
  pending,      \* the keys whose persistence effect is scheduled and has not run
  edits,        \* the edits made so far, over all sessions
  sessions,     \* the page loads so far
  lastOp,       \* the last step taken
  clipboard,    \* the text last written to the clipboard
  effectsRan    \* history: the persistence effects have run on this storage

vars == <<storage, storageMode, hash, today, phase, items, weights, context,
          pending, edits, sessions, lastOp, clipboard, effectsRan>>

Keys == {"cer_items", "cer_weights", "cer_context"}

NoItem == [has |-> FALSE, text |-> <<>>]
Item(t) == [has |-> TRUE, text |-> t]

\* A truthy result of localStorage.getItem: the key is there and not empty.
Saved(st, key) == st[key].has /\ st[key].text # <<>>

\* window.location.hash.replace(/^#/, "")
Fragment(h) == IF h # <<>> /\ h[1] = 35 THEN SubSeq(h, 2, Len(h)) ELSE h

\* new Map(list.map((p) => [p.id, p.value])).get(id): the value of the last
\* entry whose id is the string id, undefined when there is none.
MapGet(list, id) ==
  LET hits == {i \in 1..Len(list) : GetProp(list[i], K_id) = JStr(id)}
  IN IF hits = {} THEN JUndef
     ELSE GetProp(list[CHOOSE i \in hits : \A j \in hits : j <= i], K_value)

\* list.map((p) => [p.id, p.value]) throws TypeError when list is not an
\* array or holds null.
MapThrows(list) ==
  list.t # "arr" \/ \E i \in 1..Len(list.a) : IsNullish(list.a[i])

\* A merge that walks the snapshot instead of the catalog: only the catalog
\* entries the list has a value for come out.
MergeItemsPresent(list) ==
  KeepAt([i \in 1..Len(defaultItems) |->
            [defaultItems[i] EXCEPT
               !.value = Coalesce(MapGet(list, defaultItems[i].id), defaultItems[i].value)]],
         {i \in 1..Len(defaultItems) : ~IsNullish(MapGet(list, defaultItems[i].id))})

\* defaultItems.map((d) => ({ ...d, value: map.get(d.id) ?? d.value }))
MergeItems(list) ==
  [i \in 1..Len(defaultItems) |->
     [defaultItems[i] EXCEPT
        !.value = Coalesce(MapGet(list, defaultItems[i].id), defaultItems[i].value)]]

\* if (hash) { const state = decodeState(hash); ... state?.[key] ... }:
\* the part of the decoded fragment, undefined when there is no fragment or
\* it decodes to null.
HashState(h) == IF Fragment(h) # <<>> THEN decodeState(Fragment(h)) ELSE JNull
StatePart(state, key) == IF IsNullish(state) THEN JUndef ELSE GetProp(state, key)
HashPart(h, key) == StatePart(HashState(h), key)

\* The three state initializers.  initItems yields [ok, v]; ok = FALSE when
\* the initializer throws.  st is the storage, h the location hash.
ItemsFromList(list) ==
  IF ~Truthy(list) THEN Gave(defaultItems)
  ELSE IF MapThrows(list) THEN Threw
  ELSE Gave(MergeItems(list.a))

ItemsFromSaved(parsed, h) ==
  IF parsed.ok /\ ~MapThrows(parsed.v) THEN Gave(MergeItems(parsed.v.a))
  ELSE ItemsFromList(HashPart(h, K_items))

initItems(st, h) ==
  IF Saved(st, "cer_items") THEN ItemsFromSaved(JSONParse(st["cer_items"].text), h)
  ELSE ItemsFromList(HashPart(h, K_items))

PartFromHash(part, default) == IF Truthy(part) THEN part ELSE default

PartFromSaved(parsed, h, key, default) ==
  IF parsed.ok THEN parsed.v ELSE PartFromHash(HashPart(h, key), default)

\* A weights initializer that looks at the share link before the storage.
initWeightsLinkFirst(st, h) ==
  IF Truthy(HashPart(h, K_weights)) THEN HashPart(h, K_weights)
  ELSE IF Saved(st, "cer_weights")
    THEN PartFromSaved(JSONParse(st["cer_weights"].text), h, K_weights, defaultWeights)
  ELSE defaultWeights

initWeights(st, h) ==
  IF Saved(st, "cer_weights")
    THEN PartFromSaved(JSONParse(st["cer_weights"].text), h, K_weights, defaultWeights)
    ELSE PartFromHash(HashPart(h, K_weights), defaultWeights)

initContext(st, h, d) ==
  IF Saved(st, "cer_context")
    THEN PartFromSaved(JSONParse(st["cer_context"].text), h, K_context, defaultContext(d))
    ELSE PartFromHash(HashPart(h, K_context), defaultContext(d))

\* The first render reads weights.capacityWeight and context.teamName: a
\* TypeError when the state is null.
RenderThrows(w, c) == IsNullish(w) \/ IsNullish(c)

(***************************************************************************)
(* The derived values of a render.  A derived number is an exact fraction  *)
(* n/d in lowest terms (d > 0) or NaN: the rounding of doubles is not      *)
(* modelled.                                                               *)
(***************************************************************************)
NaN == [k |-> "nan"]

RECURSIVE Gcd(_, _)
Gcd(a, b) == IF b = 0 THEN a ELSE Gcd(b, a % b)

Abs(n) == IF n < 0 THEN -n ELSE n

\* n/d for d # 0, in lowest terms
Frac(n, d) ==
  [k |-> "rat",
   n |-> (IF d < 0 THEN -n ELSE n) \div Gcd(Abs(n), Abs(d)),
   d |-> Abs(d) \div Gcd(Abs(n), Abs(d))]

IsNaN(a) == a.k = "nan"

\* a + b, over the least common denominator
Plus(a, b) ==
  IF IsNaN(a) \/ IsNaN(b) THEN NaN
  ELSE Frac(a.n * (b.d \div Gcd(a.d, b.d)) + b.n * (a.d \div Gcd(a.d, b.d)),
            a.d * (b.d \div Gcd(a.d, b.d)))

\* a * b
Times(a, b) ==
  IF IsNaN(a) \/ IsNaN(b) THEN NaN
  ELSE Frac((a.n \div Gcd(Abs(a.n), b.d)) * (b.n \div Gcd(Abs(b.n), a.d)),
            (a.d \div Gcd(Abs(b.n), a.d)) * (b.d \div Gcd(Abs(a.n), b.d)))

\* a / b; 0 / 0 is NaN.  x / 0 with x # 0 (an infinity) does not arise: the
\* only divisors are a length above 0, 100 and totalW.
Over(a, b) ==
  IF IsNaN(a) \/ IsNaN(b) \/ b.n = 0 THEN NaN
  ELSE Times(a, Frac(b.d, b.n))

\* a <= b, false when either is NaN
AtMost(a, b) == ~IsNaN(a) /\ ~IsNaN(b) /\ a.n * b.d <= b.n * a.d

\* ToNumber(x) of a value read where a number is expected: undefined gives
\* NaN, null 0, a boolean 0 or 1, an object NaN.  (The strings of the model
\* are never read as numbers.)
ToNumber(x) ==
  CASE x.t = "num" -> Frac(x.h, 100)
    [] x.t = "null" -> Frac(0, 1)
    [] x.t = "bool" -> Frac(IF x.b THEN 1 ELSE 0, 1)
    [] OTHER -> NaN

\* Math.max(0, Math.min(1, n))
clamp01(n) ==
  IF IsNaN(n) THEN NaN
  ELSE IF AtMost(Frac(1, 1), n) THEN Frac(1, 1)
  ELSE IF AtMost(n, Frac(0, 1)) THEN Frac(0, 1)
  ELSE n

\* values.reduce((a, b) => a + b, 0)
RECURSIVE Sum(_)
Sum(values) ==
  IF values = <<>> THEN Frac(0, 1)
  ELSE Plus(Sum(SubSeq(values, 1, Len(values) - 1)), ToNumber(values[Len(values)]))

\* avg(values): 0 for no values, else the sum over the length
avg(values) ==
  IF Len(values) = 0 THEN Frac(0, 1) ELSE Over(Sum(values), Frac(Len(values), 1))

\* its.filter((i) => i.group === g).map((i) => i.value)
GroupValues(its, g) ==
  LET at == {i \in 1..Len(its) : its[i].group = g}
  IN KeepAt([i \in 1..Len(its) |-> its[i].value], at)

capacityScore == avg(GroupValues(items, "capacity"))
adaptabilityScore == avg(GroupValues(items, "adaptability"))

capacityW == clamp01(ToNumber(GetProp(weights, K_capacityWeight)))
adaptabilityW == clamp01(ToNumber(GetProp(weights, K_adaptabilityWeight)))

\* A total without the || 1.
OrOneLeftOut(sum) == sum

\* capacityW + adaptabilityW || 1: 1 when the sum is 0 or NaN
OrOne(sum) == IF IsNaN(sum) \/ sum.n = 0 THEN Frac(1, 1) ELSE sum
totalW == OrOne(Plus(capacityW, adaptabilityW))

\* cw * capacityScore + aw * adaptabilityScore
CER ==
  Plus(Times(Over(capacityW, totalW), capacityScore),
       Times(Over(adaptabilityW, totalW), adaptabilityScore))

\* Tiers whose lower bounds are exclusive: > 75, > 55.
pivotTierExclusive ==
  IF ~IsNaN(adaptabilityScore) /\ ~AtMost(adaptabilityScore, Frac(75, 1))
    THEN "Tier 1 (high)"
  ELSE IF ~IsNaN(adaptabilityScore) /\ ~AtMost(adaptabilityScore, Frac(55, 1))
    THEN "Tier 2 (moderate)"
  ELSE "Tier 3 (developing)"

pivotTier ==
  IF AtMost(Frac(75, 1), adaptabilityScore) THEN "Tier 1 (high)"
  ELSE IF AtMost(Frac(55, 1), adaptabilityScore) THEN "Tier 2 (moderate)"
  ELSE "Tier 3 (developing)"

(***************************************************************************)
(* Bounds and inputs                                                       *)
(***************************************************************************)
MaxEdits == 1      \* edits (slider moves, context edits, resets) over a run
MaxSessions == 2   \* page loads over a run

\* The values an <input type="range" min={0} max={100}> delivers (a subset).
SliderValues == {0, 100}

\* The sliders moved (a subset): the first and the last metric of the
\* catalog, one of each group.
SliderPositions == {1, 10}

\* The texts typed into a context field (a subset): "Ops"
ContextTexts == {<<79, 112, 115>>}
ContextFields ==
  <<K_teamName, K_department, K_assessmentDate, K_assessorName, K_assessmentPurpose>>

\* The context fields edited (a subset): teamName, assessmentPurpose
EditedFields == {1, 5}

\* The dates of the page loads, in order: "2025-01-15", "2025-02-01"
Dates == << <<50, 48, 50, 53, 45, 48, 49, 45, 49, 53>>,
            <<50, 48, 50, 53, 45, 48, 50, 45, 48, 49>> >>

Entry(id, value) == JObj(<< <<K_id, JStr(id)>>, <<K_value, value>> >>)
WeightPair(cw, aw) ==
  JObj(<< <<K_capacityWeight, JNum(cw)>>, <<K_adaptabilityWeight, JNum(aw)>> >>)
Id_legacy == <<108, 101, 103, 97, 99, 121>>   \* "legacy", not a catalog id
NotJson == <<110, 111, 116, 32, 106, 115, 111, 110>>   \* "not json"

\* Partial lists: one catalog id and one unknown id; out-of-range values.
PartialList == JArr(<<Entry(Id_autonomy, JInt(90)), Entry(Id_legacy, JInt(10))>>)
OutOfRangeList ==
  JArr(<<Entry(Id_autonomy, JInt(150)), Entry(Id_pivot_ability, JInt(-5))>>)
SharedList ==
  JArr(<<Entry(Id_idea_flow, JInt(20)), Entry(Id_xfn_swarm, JInt(80))>>)
TeamContext ==
  JObj(<< <<K_teamName, JStr(<<67, 97, 102, 233>>)>>,
          <<K_department, JStr(<<>>)>>,
          <<K_assessmentDate, JStr(Dates[1])>>,
          <<K_assessorName, JStr(<<>>)>>,
          <<K_assessmentPurpose, JStr(<<>>)>> >>)

\* localStorage[cer_items], [cer_weights], [cer_context]
Storage(i, w, c) ==
  [k \in Keys |-> CASE k = "cer_items" -> i
                    [] k = "cer_weights" -> w
                    [] k = "cer_context" -> c]

\* What localStorage can hold when the page is first loaded: nothing, what
\* an earlier version or another script left there, or damaged entries.
Storages ==
  { Storage(NoItem, NoItem, NoItem),
    Storage(Item(Stringify(PartialList)), Item(Stringify(WeightPair(70, 30))),
            Item(Stringify(TeamContext))),
    Storage(Item(Stringify(PartialList)), NoItem, NoItem),
    Storage(Item(Stringify(OutOfRangeList)), Item(Stringify(WeightPair(150, -20))),
            NoItem),
    Storage(Item(NotJson), Item(NotJson), Item(NotJson)),
    Storage(Item(Stringify(JObj(<<>>))), Item(Stringify(JNull)),          \* {}, null
            Item(Stringify(TeamContext))),
    Storage(Item(Stringify(JArr(<<JInt(5)>>))), Item(Stringify(JInt(5))), \* [5], 5, 5
            Item(Stringify(JInt(5)))),
    Storage(Item(Stringify(JArr(<<JNull>>))), NoItem, Item(<<>>)) }       \* [null], -, ""

\* # and the base64 form of a text
Link(text) == <<35>> \o Btoa(Utf8Encode(text).v).v
Snapshot(v, list, w, c) ==
  JObj(<< <<K_v, v>>, <<K_items, list>>, <<K_weights, w>>, <<K_context, c>> >>)

\* A well-formed share link, and what the location hash can be when the page
\* is first loaded.
SharedLink ==
  Link(Stringify(Snapshot(JInt(1), SharedList, WeightPair(20, 80), TeamContext)))
Hashes ==
  { <<>>,
    <<35, 37, 37, 37>>,                                          \* #%%%
    Link(NotJson),
    SharedLink,
    Link(Stringify(Snapshot(JInt(2), SharedList, WeightPair(20, 80), TeamContext))),
    Link(Stringify(JObj(<< <<K_items, PartialList>> >>))),
    Link(Stringify(Snapshot(JInt(1), OutOfRangeList, WeightPair(150, -20), JUndef))),
    Link(Stringify(Snapshot(JInt(1), JInt(5), JInt(5), JInt(5)))) }

(***************************************************************************)
(* Initial state and steps                                                 *)
(***************************************************************************)
Op(name, idx, val) == [op |-> name, idx |-> idx, val |-> val]

Init ==
  /\ storage \in Storages
  /\ storageMode \in {"ok", "readonly", "denied"}
  /\ hash \in Hashes
  /\ today = 1
  /\ phase = "unloaded"
  /\ items = <<>>
  /\ weights = JUndef
  /\ context = JUndef
  /\ pending = {}
  /\ edits = 0
  /\ sessions = 1
  /\ lastOp = Op("Init", 0, 0)
  /\ clipboard = <<>>
  /\ effectsRan = FALSE

Unmounted ==
  /\ items' = <<>>
  /\ weights' = JUndef
  /\ context' = JUndef
  /\ pending' = {}

\* The first render with the initial state i (of initItems), w, c.
Mount(i, w, c) ==
  IF storageMode = "denied" \/ ~i.ok \/ RenderThrows(w, c)
    THEN phase' = "crashed" /\ Unmounted
    ELSE /\ phase' = "ready"
         /\ items' = i.v
         /\ weights' = w
         /\ context' = c
         /\ pending' = Keys

\* The page is loaded: the module is evaluated and CERWidget is mounted; the
\* three state initializers run, then the first render.
Load ==
  /\ phase = "unloaded"
  /\ Mount(initItems(storage, hash), initWeights(storage, hash),
           initContext(storage, hash, Dates[today]))
  /\ lastOp' = Op("Load", 0, 0)
  /\ UNCHANGED <<storage, storageMode, hash, today, edits, sessions, clipboard, effectsRan>>

\* Effects that write the weights of the first render, not the current ones.
BlobStaleWeights(key, its, w, c) ==
  CASE key = "cer_items" -> Stringify(IdValueList(its))
    [] key = "cer_weights" -> Stringify(defaultWeights)
    [] key = "cer_context" -> Stringify(c)

\* What the effect of a key writes: JSON.stringify of its part of the state.
Blob(key, its, w, c) ==
  CASE key = "cer_items" -> Stringify(IdValueList(its))
    [] key = "cer_weights" -> Stringify(w)
    [] key = "cer_context" -> Stringify(c)

\* The scheduled persistence effects run, in the order they are declared.
FlushEffects ==
  /\ phase = "ready"
  /\ pending # {}
  /\ IF storageMode = "ok"
       THEN /\ storage' = [k \in Keys |->
                             IF k \in pending THEN Item(Blob(k, items, weights, context))
                             ELSE storage[k]]
            /\ pending' = {}
            /\ UNCHANGED <<phase, items, weights, context>>
       ELSE phase' = "crashed" /\ Unmounted /\ UNCHANGED storage
  /\ lastOp' = Op("FlushEffects", 0, 0)
  /\ effectsRan' = (effectsRan \/ storageMode = "ok")
  /\ UNCHANGED <<storageMode, hash, today, edits, sessions, clipboard>>

\* An edit handler runs when the page is mounted and the effects of the
\* previous render have run.
CanEdit == phase = "ready" /\ pending = {} /\ edits < MaxEdits

\* prev.map((p, j) => (j === idx ? { ...p, value: v } : p))
SetValueAt(its, idx, v) ==
  [j \in 1..Len(its) |-> IF j = idx THEN [its[j] EXCEPT !.value = v] ELSE its[j]]

\* A range input that hands on whatever it is asked to take.
RangeInputUnchecked(v) == v

\* The value an <input type="range" min={0} max={100}> has when it is asked
\* to take v (a whole number): v brought into [min, max].
RangeInput(v) == IF v < 0 THEN 0 ELSE IF v > 100 THEN 100 ELSE v

\* onChange of the slider of the metric at position idx, asked to take v
SetMetricValue(idx, v) ==
  /\ CanEdit
  /\ items' = SetValueAt(items, idx, JInt(RangeInput(v)))
  /\ pending' = {"cer_items"}
  /\ edits' = edits + 1
  /\ lastOp' = Op("SetMetricValue", idx, v)
  /\ UNCHANGED <<storage, storageMode, hash, today, phase, weights, context, sessions,
               clipboard, effectsRan>>

\* onChange of a weight slider: Number(e.target.value) / 100
SetWeight(key, pct) ==
  /\ CanEdit
  /\ weights' = SpreadSet(weights, key, JNum(pct))
  /\ pending' = {"cer_weights"}
  /\ edits' = edits + 1
  /\ lastOp' = Op("SetWeight", IF key = K_capacityWeight THEN 1 ELSE 2, pct)
  /\ UNCHANGED <<storage, storageMode, hash, today, phase, items, context, sessions,
               clipboard, effectsRan>>

\* onChange of the context field ContextFields[f]
SetContext(f, text) ==
  /\ CanEdit
  /\ context' = SpreadSet(context, ContextFields[f], JStr(text))
  /\ pending' = {"cer_context"}
  /\ edits' = edits + 1
  /\ lastOp' = Op("SetContext", f, Len(text))
  /\ UNCHANGED <<storage, storageMode, hash, today, phase, items, weights, sessions,
               clipboard, effectsRan>>

\* A reset that leaves out setWeights(defaultWeights).
resetAllKeepsWeights ==
  /\ CanEdit
  /\ items' = defaultItems
  /\ context' = defaultContext(Dates[today])
  /\ hash' = <<>>
  /\ pending' = Keys
  /\ edits' = edits + 1
  /\ lastOp' = Op("resetAll", 0, 0)
  /\ UNCHANGED <<storage, storageMode, today, phase, sessions, clipboard, weights,
               effectsRan>>

resetAll ==
  /\ CanEdit
  /\ items' = defaultItems
  /\ weights' = defaultWeights
  /\ context' = defaultContext(Dates[today])
  /\ hash' = <<>>
  /\ pending' = Keys
  /\ edits' = edits + 1
  /\ lastOp' = Op("resetAll", 0, 0)
  /\ UNCHANGED <<storage, storageMode, today, phase, sessions, clipboard, effectsRan>>

\* What the location hash is when the page is opened again: what it was, or
\* a share link received from somebody else.
ReopenHashes == {hash, SharedLink}

\* The page is closed and opened again on the next date; effects that have
\* not run are lost.
Reopen(h) ==
  /\ phase \in {"ready", "crashed"}
  /\ sessions < MaxSessions
  /\ phase' = "unloaded"
  /\ Unmounted
  /\ hash' = h
  /\ today' = IF today < Len(Dates) THEN today + 1 ELSE today
  /\ sessions' = sessions + 1
  /\ lastOp' = Op("Reopen", 0, 0)
  /\ UNCHANGED <<storage, storageMode, edits, clipboard, effectsRan>>

\* window.location.origin and window.location.pathname: "https://cer.test/"
PageUrl == <<104, 116, 116, 112, 115, 58, 47, 47, 99, 101, 114, 46, 116, 101, 115, 116, 47>>

\* `${window.location.origin}${window.location.pathname}#${encoded}`
shareableLink == PageUrl \o <<35>> \o encodeState(items, weights, context).v

copyLink ==
  /\ phase = "ready"
  /\ pending = {}
  /\ clipboard' = shareableLink
  /\ lastOp' = Op("copyLink", 0, 0)
  /\ UNCHANGED <<storage, storageMode, hash, today, phase, items, weights, context,
                 pending, edits, sessions, effectsRan>>

\* The location hash of the page opened at url: from the first # on, empty
\* when there is none.
RECURSIVE HashOf(_)
HashOf(url) ==
  IF url = <<>> \/ url[1] = 35 THEN url ELSE HashOf(Tail(url))

\* The link on the clipboard is opened in a browser that has never shown the
\* page: its localStorage is empty.
OpenLink ==
  /\ phase \in {"ready", "crashed"}
  /\ clipboard # <<>>
  /\ sessions < MaxSessions
  /\ storage' = Storage(NoItem, NoItem, NoItem)
  /\ hash' = HashOf(clipboard)
  /\ phase' = "unloaded"
  /\ Unmounted
  /\ sessions' = sessions + 1
  /\ lastOp' = Op("OpenLink", 0, 0)
  /\ effectsRan' = FALSE
  /\ UNCHANGED <<storageMode, today, edits, clipboard>>

\* The sessions of one browser.  copyLink leaves the state, the storage and
\* the location hash alone; the share flow it starts is SpecCodec below.
Next ==
  \/ Load
  \/ FlushEffects
  \/ \E idx \in SliderPositions, v \in SliderValues : SetMetricValue(idx, v)
  \/ \E key \in {K_capacityWeight, K_adaptabilityWeight}, pct \in SliderValues :
       SetWeight(key, pct)
  \/ \E f \in EditedFields, text \in ContextTexts : SetContext(f, text)
  \/ resetAll
  \/ \E h \in ReopenHashes : Reopen(h)

Spec == Init /\ [][Next]_vars

(***************************************************************************)
(* The share flow: a saved assessment is loaded, its link is copied and    *)
(* opened in another browser.                                              *)
(***************************************************************************)
\* The assessments shared (a subset): slider values at both ends, weights
\* with zero, one and two decimals, context texts with characters of one to
\* four UTF-8 bytes, a double quote and a backslash.
ItemsInputs ==
  { defaultItems,
    SetValueAt(defaultItems, 1, JInt(0)),
    SetValueAt(defaultItems, 10, JInt(100)),
    [i \in 1..Len(defaultItems) |-> [defaultItems[i] EXCEPT !.value = JInt(100)]] }
WeightsInputs ==
  {defaultWeights, WeightPair(0, 0), WeightPair(100, 5), WeightPair(37, 100)}
ContextInputs ==
  { defaultContext(Dates[1]),
    TeamContext,
    SpreadSet(TeamContext, K_department, JStr(<<8364, 32, 128512>>)),   \* "€ 😀"
    SpreadSet(defaultContext(Dates[1]), K_assessmentPurpose,
              JStr(<<34, 97, 92, 98, 34>>)) }                            \* "a\b" quoted

InitCodec ==
  /\ \E i \in ItemsInputs, w \in WeightsInputs, c \in ContextInputs :
       storage = [k \in Keys |-> Item(Blob(k, i, w, c))]
  /\ storageMode = "ok"
  /\ hash = <<>>
  /\ today = 1
  /\ phase = "unloaded"
  /\ items = <<>>
  /\ weights = JUndef
  /\ context = JUndef
  /\ pending = {}
  /\ edits = 0
  /\ sessions = 1
  /\ lastOp = Op("Init", 0, 0)
  /\ clipboard = <<>>
  /\ effectsRan = FALSE

NextCodec ==
  \/ Load
  \/ FlushEffects
  \/ copyLink
  \/ OpenLink

SpecCodec == InitCodec /\ [][NextCodec]_vars

(***************************************************************************)
(* Scoring: a saved assessment is loaded and its sliders are moved.        *)
(***************************************************************************)
\* The saved metric values, in catalog order (a subset): adaptability
\* averages of exactly 75 and 55 and just below, all at 100, all at 0, and
\* values far outside 0..100.
ScoreValues ==
  { <<60, 55, 50, 52, 58, 75, 75, 75, 75, 75>>,
    <<0, 0, 0, 0, 0, 75, 75, 75, 75, 74>>,
    <<100, 100, 100, 100, 100, 55, 55, 55, 55, 55>>,
    <<60, 55, 50, 52, 58, 55, 55, 55, 55, 54>>,
    <<100, 100, 100, 100, 100, 100, 100, 100, 100, 100>>,
    <<0, 0, 0, 0, 0, 0, 0, 0, 0, 0>>,
    <<1000, 55, 50, 52, 58, -1000, 45, 47, 51, 49>> }

\* The saved weights (a subset): the defaults, both 0, both negative, one
\* above 1 and one negative, 0.01 and 0.06.
ScoreWeights ==
  { defaultWeights, WeightPair(0, 0), WeightPair(-20, -50), WeightPair(150, -20),
    WeightPair(1, 6) }

ScoreList(vals) ==
  JArr([i \in 1..Len(defaultItems) |-> Entry(defaultItems[i].id, JInt(vals[i]))])

InitScores ==
  /\ \E vals \in ScoreValues, w \in ScoreWeights :
       storage = Storage(Item(Stringify(ScoreList(vals))), Item(Stringify(w)), NoItem)
  /\ storageMode = "ok"
  /\ hash = <<>>
  /\ today = 1
  /\ phase = "unloaded"
  /\ items = <<>>
  /\ weights = JUndef
  /\ context = JUndef
  /\ pending = {}
  /\ edits = 0
  /\ sessions = 1
  /\ lastOp = Op("Init", 0, 0)
  /\ clipboard = <<>>
  /\ effectsRan = FALSE

\* What a metric slider is asked to take (a subset): both ends, and values
\* outside its range, as a script driving the input can ask for.
SliderRequests == {-5, 0, 100, 150}

NextScores ==
  \/ Load
  \/ FlushEffects
  \/ \E idx \in SliderPositions, v \in SliderRequests : SetMetricValue(idx, v)
  \/ \E key \in {K_capacityWeight, K_adaptabilityWeight}, pct \in SliderValues :
       SetWeight(key, pct)

SpecScores == InitScores /\ [][NextScores]_vars

(***************************************************************************)
(* Properties                                                              *)
(***************************************************************************)
\* The shapes of section 6 of the specification (the transport encoding).
EntryShaped(e) ==
  e.t = "obj" /\ GetProp(e, K_id).t = "str" /\ GetProp(e, K_value).t = "num"
ListShaped(x) == x.t = "arr" /\ \A i \in 1..Len(x.a) : EntryShaped(x.a[i])
WeightsShaped(x) ==
  /\ x.t = "obj"
  /\ GetProp(x, K_capacityWeight).t = "num"
  /\ GetProp(x, K_adaptabilityWeight).t = "num"
ContextShaped(x) ==
  x.t = "obj" /\ \A f \in 1..Len(ContextFields) : GetProp(x, ContextFields[f]).t = "str"

\* A number brought into [0, 100].
Clamp100(x) == IF x.h < 0 THEN JInt(0) ELSE IF x.h > 10000 THEN JInt(100) ELSE x

\* C1: in every state of a mounted page, however it was initialized
\* (defaults, persisted list, share link; partial or with unknown ids) and
\* after any slider move or reset, the metric sequence holds exactly the
\* catalog ids, once each, in catalog order.
C1_CatalogCoverage ==
  phase = "ready" =>
    /\ Len(items) = Len(defaultItems)
    /\ \A i \in 1..Len(defaultItems) : items[i].id = defaultItems[i].id

\* C1 witness: the page was loaded from a persisted list that holds one
\* catalog id (autonomy = 90) and one unknown id.
C1_Witness ==
  /\ lastOp.op = "Load"
  /\ phase = "ready"
  /\ storage["cer_items"] = Item(Stringify(PartialList))
  /\ Len(items) = 10
  /\ items[1].value = JInt(90)
  /\ items[2].value = JInt(55)

\* C2: in every state of a mounted page every stored metric value is a
\* number in [0, 100].
C2_ValuesInRange ==
  phase = "ready" =>
    \A i \in 1..Len(items) :
      items[i].value.t = "num" /\ items[i].value.h >= 0 /\ items[i].value.h <= 10000

\* C3: after initialization each part of the state comes from the persisted
\* blob when that is present and has the expected shape, else from the share
\* link when that has the part in the expected shape, else from the defaults.
C3_ItemsSource(p, imported) ==
  IF p.ok /\ ListShaped(p.v) THEN MergeItems(p.v.a)
  ELSE IF ListShaped(imported) THEN MergeItems(imported.a)
  ELSE defaultItems
C3_PartSource(p, pShaped, imported, importedShaped, default) ==
  IF p.ok /\ pShaped THEN p.v ELSE IF importedShaped THEN imported ELSE default
C3_Persisted(key) ==
  IF Saved(storage, key) THEN JSONParse(storage[key].text)
  ELSE [ok |-> FALSE, v |-> JUndef]
C3_WeightsSource(p, imported) ==
  C3_PartSource(p, WeightsShaped(p.v), imported, WeightsShaped(imported), defaultWeights)
C3_ContextSource(p, imported) ==
  C3_PartSource(p, ContextShaped(p.v), imported, ContextShaped(imported),
                defaultContext(Dates[today]))
C3_Precedence ==
  (lastOp.op = "Load" /\ phase = "ready") =>
    /\ items = C3_ItemsSource(C3_Persisted("cer_items"), HashPart(hash, K_items))
    /\ weights = C3_WeightsSource(C3_Persisted("cer_weights"), HashPart(hash, K_weights))
    /\ context = C3_ContextSource(C3_Persisted("cer_context"), HashPart(hash, K_context))

\* C4: initialization never fails: whatever localStorage and the share link
\* hold, and also when localStorage cannot be read, loading the page ends in
\* a mounted page whose items, weights and context have the expected shape.
C4_InitNeverFails ==
  lastOp.op = "Load" =>
    /\ phase = "ready"
    /\ ListShaped(IdValueList(items))
    /\ WeightsShaped(weights)
    /\ ContextShaped(context)

\* C5: decodeState gives null for every fragment that is not the encoding of
\* a well-formed version-1 snapshot: what it gives is null or an object with
\* v = 1, a list of {id, value} entries, a weight pair and, when present, a
\* context record.
C5_WellFormed(d) ==
  /\ GetProp(d, K_v) = JInt(1)
  /\ ListShaped(GetProp(d, K_items))
  /\ WeightsShaped(GetProp(d, K_weights))
  /\ (GetProp(d, K_context) = JUndef \/ ContextShaped(GetProp(d, K_context)))
C5_NullOrWellFormed(d) == d = JNull \/ C5_WellFormed(d)
C5_DecodeRejects ==
  (lastOp.op = "Load" /\ Fragment(hash) # <<>>) =>
    C5_NullOrWellFormed(decodeState(Fragment(hash)))

\* C6: the link copied from a page decodes to the snapshot of that page:
\* version 1, the id and value of every metric, both weights and every
\* context field, unchanged.
C6_RoundTrip ==
  lastOp.op = "copyLink" =>
    decodeState(Fragment(HashOf(clipboard)))
      = Snapshot(JInt(1), IdValueList(items), weights, context)

\* C6 witness: a link was copied from a page whose state came out of a link
\* itself, with a context text of three- and four-byte characters.
C6_Witness ==
  /\ lastOp.op = "copyLink"
  /\ sessions = 2
  /\ items[1].value = JInt(0)
  /\ GetProp(weights, K_adaptabilityWeight) = JNum(5)
  /\ GetProp(context, K_department) = JStr(<<8364, 32, 128512>>)

\* C7: the list merged at initialization gives, for each catalog id, the
\* list's value for that id clamped to [0, 100] when the list has one, and
\* the catalog default otherwise.
C7_Claimed(list, i) ==
  IF MapGet(list, defaultItems[i].id) = JUndef THEN defaultItems[i].value
  ELSE Clamp100(MapGet(list, defaultItems[i].id))
C7_IsMergeOf(p) ==
  (p.ok /\ ListShaped(p.v)) =>
    /\ Len(items) = Len(defaultItems)
    /\ \A i \in 1..Len(defaultItems) :
         items[i].id = defaultItems[i].id /\ items[i].value = C7_Claimed(p.v.a, i)
C7_MergeClamped ==
  (lastOp.op = "Load" /\ phase = "ready" /\ Saved(storage, "cer_items")) =>
    C7_IsMergeOf(JSONParse(storage["cer_items"].text))

\* C9 as stated: a reset leaves every metric at its catalog default, both
\* weights at 0.5 and every context field the empty text.
C9_ResetEmptyContext ==
  lastOp.op = "resetAll" =>
    /\ items = defaultItems
    /\ weights = WeightPair(50, 50)
    /\ \A f \in 1..Len(ContextFields) : GetProp(context, ContextFields[f]) = JStr(<<>>)

\* C9 as amended: a reset leaves every metric at its catalog default, both
\* weights at 0.5, the text fields of the context empty and assessmentDate
\* the date the page was loaded on.
C9_ResetDefaults ==
  lastOp.op = "resetAll" =>
    /\ items = defaultItems
    /\ weights = WeightPair(50, 50)
    /\ \A f \in 1..Len(ContextFields) :
         GetProp(context, ContextFields[f])
           = JStr(IF ContextFields[f] = K_assessmentDate THEN Dates[today] ELSE <<>>)

\* C9 witness: a reset of a page that was loaded, on the first date, with
\* other values, weights and context than the defaults.
C9_Witness ==
  /\ lastOp.op = "resetAll"
  /\ storage["cer_items"] = Item(Stringify(IdValueList(MergeItems(PartialList.a))))
  /\ storage["cer_weights"] = Item(Stringify(WeightPair(70, 30)))
  /\ storage["cer_context"] = Item(Stringify(TeamContext))
  /\ GetProp(context, K_assessmentDate) = JStr(Dates[1])

\* C10: once the persistence effects of the last change have run, the three
\* stored blobs are the JSON form of the parts of the state, and the state
\* initializers, run on that storage (on a later date, with a share link in
\* the location hash), give the state back.
C10_BlobIs(key, part) ==
  Saved(storage, key) /\ JSONParse(storage[key].text) = [ok |-> TRUE, v |-> part]
C10_Persisted ==
  (phase = "ready" /\ pending = {}) =>
    /\ C10_BlobIs("cer_items", IdValueList(items))
    /\ C10_BlobIs("cer_weights", weights)
    /\ C10_BlobIs("cer_context", context)
    /\ initItems(storage, SharedLink) = Gave(items)
    /\ initWeights(storage, SharedLink) = weights
    /\ initContext(storage, SharedLink, Dates[Len(Dates)]) = context

\* C10 witness: the effects have run after a slider move, a weight change, a
\* context edit or a reset.
C10_Witness ==
  /\ lastOp.op = "FlushEffects"
  /\ phase = "ready"
  /\ edits >= 1
  /\ items[1].value = JInt(0)
  /\ storage["cer_items"].text = Stringify(IdValueList(items))

\* 0 <= x <= 100
InRange(x) == AtMost(Frac(0, 1), x) /\ AtMost(x, Frac(100, 1))

\* C11: in every state of a mounted page, whatever weights are stored, both
\* group scores and CER lie in [0, 100].
C11_ScoresInRange ==
  phase = "ready" =>
    InRange(capacityScore) /\ InRange(adaptabilityScore) /\ InRange(CER)

\* C12: when both stored weights are 0 or negative, the weight total is 1,
\* both normalized weights are 0 and CER is 0, whatever the metric values.
C12_ZeroWeights ==
  (/\ phase = "ready"
   /\ AtMost(ToNumber(GetProp(weights, K_capacityWeight)), Frac(0, 1))
   /\ AtMost(ToNumber(GetProp(weights, K_adaptabilityWeight)), Frac(0, 1))) =>
    /\ totalW = Frac(1, 1)
    /\ Over(capacityW, totalW) = Frac(0, 1)
    /\ Over(adaptabilityW, totalW) = Frac(0, 1)
    /\ CER = Frac(0, 1)

\* C12 witness: a mounted page with both stored weights negative and metric
\* values other than 0.
C12_Witness ==
  /\ phase = "ready"
  /\ weights = WeightPair(-20, -50)
  /\ items[1].value = JInt(1000)
  /\ lastOp.op = "FlushEffects"

\* The sum of the adaptability values (catalog positions 6 to 10), in
\* hundredths.
C13_AdaptabilitySum ==
  items[6].value.h + items[7].value.h + items[8].value.h + items[9].value.h
    + items[10].value.h

\* C13: the pivot tier is high when the adaptability average is at least 75,
\* moderate when it is at least 55 and below 75, developing below 55,
\* whatever the capacity values and the weights.
C13_PivotTier ==
  phase = "ready" =>
    pivotTier = (IF C13_AdaptabilitySum >= 5 * 7500 THEN "Tier 1 (high)"
                 ELSE IF C13_AdaptabilitySum >= 5 * 5500 THEN "Tier 2 (moderate)"
                 ELSE "Tier 3 (developing)")

\* C13 witness: an adaptability average of exactly 55 with every capacity
\* value at 100 and both weights at 0, after a weight slider was moved.
C13_Witness ==
  /\ phase = "ready"
  /\ lastOp.op = "SetWeight"
  /\ C13_AdaptabilitySum = 5 * 5500
  /\ items[1].value = JInt(100)
  /\ pivotTier = "Tier 2 (moderate)"

\* C14: a move of the slider of one metric replaces exactly that metric's
\* value by the value asked for brought into [0, 100] (150 gives 100, -5
\* gives 0); the order, every other metric, both weights and the context
\* stay as they were.
C14_SetMetricValueStep ==
  lastOp'.op = "SetMetricValue" =>
    /\ Len(items') = Len(items)
    /\ \A j \in 1..Len(items) :
         items'[j] = IF j = lastOp'.idx
                       THEN [items[j] EXCEPT !.value = Clamp100(JInt(lastOp'.val))]
                       ELSE items[j]
    /\ weights' = weights
    /\ context' = context
C15_ItemsStored == initItems(storage, <<>>) = Gave(items)
C15_WeightsStored == initWeights(storage, <<>>) = weights
C15_ContextStored == initContext(storage, <<>>, Dates[today]) = context

\* The blob of a key is there and parses (for the items: to a list of
\* {id, value} entries).
C15_Parses(p, shaped) == p.ok /\ shaped
C15_ItemsBlob ==
  C15_Parses(C3_Persisted("cer_items"), ListShaped(C3_Persisted("cer_items").v))
C15_WeightsBlob == C3_Persisted("cer_weights").ok
C15_ContextBlob == C3_Persisted("cer_context").ok

=============================================================================
